---- MODULE Spec2Model ----
(***************************************************************************)
(* Repository of entity compartments (scrinium): a registry of per-key     *)
(* lookups of DataCompartments, with get / clear / clearAll / modify /     *)
(* reset, the asynchronous loads started by the compartment factory and    *)
(* the asynchronous continuation of modify.                                *)
(***************************************************************************)
EXTENDS Integers, Sequences, FiniteSets, TLC

\* ------------------------------------------------------------------ bounds
MaxCalls == 3        \* calls a client makes on the repository or on a compartment
MaxModify == 2       \* modify calls that may be suspended at the same time
MaxObservers == 1    \* subscriptions the clients make to value$
MaxLiveCalls == 2    \* calls the clients make in the behaviours checked for liveness

\* ------------------------------------------------------- the configuration
Ids == {1, 2}                                   \* entity ids used by the clients
registry == [videos |-> "videoResolver", users |-> "userResolver"]
ObjectPrototypeKeys == {"toString"}             \* names every plain object inherits
Tokens == DOMAIN registry \cup {"ghost"} \cup ObjectPrototypeKeys

\* the (key, id) pairs the clients ask for: ids of both registered categories,
\* and one id under each token that was never registered
Requests == {<<"videos", 1>>, <<"videos", 2>>, <<"users", 1>>, <<"ghost", 1>>, <<"toString", 1>>}

undefined == 0       \* the defaultValue of a compartment (no value yet)
NoCell == 0          \* no compartment (compartments are numbered from 1)
\* the modify calls the clients make: two different modifiers on one entity,
\* one modifier elsewhere and under each token that was never registered
Modifications == {<<"videos", 1, "add1">>, <<"videos", 1, "add2">>, <<"users", 1, "add1">>,
                  <<"ghost", 1, "add1">>, <<"toString", 1, "add1">>}

\* the value the category's resolver resolves to for id
Resolve(key, id) == 10 * id

\* the value a modifier resolves to when it is given currentValue
Apply(m, currentValue) == IF m = "add1" THEN currentValue + 1 ELSE currentValue + 2

VARIABLES
  values,         \* values[key][id]: the compartment the key's Lookup holds for id
  cells,          \* every DataCompartment ever constructed, by identity
  resolverCalls,  \* resolverCalls[key][id]: invocations of resolver.resolve(id)
  procs,          \* the modify calls: where each is suspended
  observers,      \* the subscriptions to value$ and what each has received
  lastCall,       \* the last call a client made and how it ended
  ncalls          \* number of calls made

vars == <<values, cells, resolverCalls, procs, observers, lastCall, ncalls>>

\* the part of the state the repository's methods act on
State == [values |-> values, cells |-> cells, resolverCalls |-> resolverCalls,
          procs |-> procs, observers |-> observers]

\* ------------------------------------------------- createRepository, part 1
\* one Lookup per entry of the registry, named by its key
lookups == [key \in DOMAIN registry |-> key]

\* the repository copies the entries of lookups into a plain object
compartmentLookups == [key \in DOMAIN lookups |-> lookups[key]]

\* the async data source of a compartment: one call of resolver.resolve(id)
source(st, key, id) == [st EXCEPT !.resolverCalls[key][id] = @ + 1]

\* variant: a data source that swallows the rejection and resolves with nothing
source_settled_swallow(outcome) == [ok |-> TRUE, value |-> outcome.value]

\* what the data source's promise settles to, given what the resolver's did
source_settled(outcome) == outcome

\* ------------------------------------------- Repository.modify, resumed
IdleProc == [pc |-> "idle", cell |-> NoCell, cur |-> undefined, m |-> "add1",
             err |-> "none", pushed |-> FALSE]

\* variant: modify that awaits the last value of value$, which never completes
modify_currentValue_last(proc, v) == proc

\* firstValueFrom(value$) delivered v: modify goes on to call modifier(v)
modify_currentValue(proc, v) == [proc EXCEPT !.pc = "modifier", !.cur = v]

\* variant: modify that catches what it awaited and resolves
modify_rejected_swallow(proc, err) == [proc EXCEPT !.pc = "done"]

\* an awaited promise rejected: the promise modify returned rejects with err
modify_rejected(proc, err) == [proc EXCEPT !.pc = "rejected", !.err = err]

\* ------------------------------------------------------ DataCompartment
\* the modify calls subscribed to x.value$ and still waiting for its first value
Subscribers(st, x) == {p \in DOMAIN st.procs : st.procs[p].pc = "read" /\ st.procs[p].cell = x}

DataCompartment_load(st, x) ==
  LET c == st.cells[x]
      st1 == [st EXCEPT !.cells[x].loading = @ + 1,
                        !.cells[x].loads = @ + 1,
                        !.cells[x].error = FALSE]
  IN  source(st1, c.token, c.id)

DataCompartment_new(st, key, id, options) ==
  LET x == Len(st.cells) + 1
      cell == [token |-> key, id |-> id, value |-> options.defaultValue,
               emitted |-> <<>>, loading |-> 0, loads |-> 0, error |-> FALSE]
      st1 == [st EXCEPT !.cells = Append(@, cell)]
  IN  [st |-> IF options.strategy = "auto" THEN DataCompartment_load(st1, x) ELSE st1,
       ret |-> x]

\* push: replaces the current value and emits it
DataCompartment_next(st, x, v) ==
  [st EXCEPT !.cells[x].value = v,
             !.cells[x].emitted = Append(@, v),
             !.procs = [p \in DOMAIN st.procs |->
                          IF p \in Subscribers(st, x)
                          THEN modify_currentValue(st.procs[p], v)
                          ELSE st.procs[p]],
             !.observers = [o \in DOMAIN st.observers |->
                              IF st.observers[o].cell = x
                              THEN [st.observers[o] EXCEPT !.received = Append(@, v)]
                              ELSE st.observers[o]]]

\* value$.subscribe: the current value, if there is one, is replayed at once
DataCompartment_subscribe(st, x) ==
  LET c == st.cells[x]
      has == c.value # undefined
  IN  [st EXCEPT !.observers =
         Append(@, [cell |-> x, received |-> IF has THEN <<c.value>> ELSE <<>>])]

\* the load's promise resolved with v
DataCompartment_loaded(st, x, v) ==
  DataCompartment_next([st EXCEPT !.cells[x].loading = @ - 1], x, v)

\* the load's promise rejected: the value is kept
DataCompartment_failed(st, x) ==
  [st EXCEPT !.cells[x].loading = @ - 1,
             !.cells[x].error = TRUE,
             !.procs = [p \in DOMAIN st.procs |->
                          IF p \in Subscribers(st, x)
                          THEN modify_rejected(st.procs[p], "LoadFailure")
                          ELSE st.procs[p]]]

\* read: the current value if there is one, else the value of the load in
\* flight, or of a load it starts when none is
DataCompartment_read(st, x) ==
  IF st.cells[x].value = undefined /\ st.cells[x].loading = 0
  THEN DataCompartment_load(st, x)
  ELSE st

\* reload: invokes the source again
DataCompartment_reload(st, x) == DataCompartment_load(st, x)

\* ------------------------------------------------- createRepository, part 2
\* variant: a factory that also loads the compartment it has just built
factory_twice(st, key, id) ==
  LET r == DataCompartment_new(st, key, id, [strategy |-> "auto", defaultValue |-> undefined])
  IN  [st |-> DataCompartment_load(r.st, r.ret), ret |-> r.ret]

\* the factory the key's Lookup is built with
factory(st, key, id) ==
  DataCompartment_new(st, key, id, [strategy |-> "auto", defaultValue |-> undefined])

\* ------------------------------------------------------------------ Lookup
Lookup_find(st, key, id) ==
  IF st.values[key][id] # NoCell
  THEN [st |-> st, ret |-> st.values[key][id]]
  ELSE LET r == factory(st, key, id)
       IN  [st |-> [r.st EXCEPT !.values[key][id] = r.ret], ret |-> r.ret]

Lookup_clear(st, key, id) == [st EXCEPT !.values[key][id] = NoCell]

Lookup_clearAll(st, key) == [st EXCEPT !.values[key] = [id \in Ids |-> NoCell]]

\* -------------------------------------------------------------- Repository
\* variant: findLookup without its check of the property it read
findLookup_nocheck(key) ==
  IF key \in DOMAIN compartmentLookups
  THEN [err |-> "none", lookup |-> compartmentLookups[key]]
  ELSE IF key \in ObjectPrototypeKeys
       THEN [err |-> "none", lookup |-> "inherited"]
       ELSE [err |-> "none", lookup |-> "undefined"]

\* variant: findLookup that falls back to a registered lookup
findLookup_default(key) ==
  IF key \in DOMAIN compartmentLookups
  THEN [err |-> "none", lookup |-> compartmentLookups[key]]
  ELSE [err |-> "none", lookup |-> compartmentLookups["videos"]]

\* reading a property of the plain object: own entries, then Object.prototype
findLookup(key) ==
  IF key \in DOMAIN compartmentLookups
  THEN [err |-> "none", lookup |-> compartmentLookups[key]]
  ELSE IF key \in ObjectPrototypeKeys
       THEN [err |-> "none", lookup |-> "inherited"]
       ELSE [err |-> "UnknownCategory", lookup |-> "undefined"]

\* calling a Lookup method on what findLookup returned
IsLookup(l) == l \in {lookups[k] : k \in DOMAIN lookups}

\* variant: clear that looks the compartment up and leaves it in place
clear_find(st, key, id) ==
  LET f == findLookup(key)
  IN  IF f.err # "none" THEN [st |-> st, err |-> f.err]
      ELSE IF ~IsLookup(f.lookup) THEN [st |-> st, err |-> "TypeError"]
      ELSE [st |-> Lookup_find(st, f.lookup, id).st, err |-> "none"]

\* variant: clear that empties the whole lookup
clear_whole(st, key, id) ==
  LET f == findLookup(key)
  IN  IF f.err # "none" THEN [st |-> st, err |-> f.err]
      ELSE IF ~IsLookup(f.lookup) THEN [st |-> st, err |-> "TypeError"]
      ELSE [st |-> Lookup_clearAll(st, f.lookup), err |-> "none"]

\* variant: clear that also cancels the load of the compartment it evicts
clear_cancel(st, key, id) ==
  LET f == findLookup(key)
  IN  IF f.err # "none" THEN [st |-> st, err |-> f.err]
      ELSE IF ~IsLookup(f.lookup) THEN [st |-> st, err |-> "TypeError"]
      ELSE LET x == st.values[f.lookup][id]
               s == Lookup_clear(st, f.lookup, id)
           IN  [st |-> IF x = NoCell THEN s ELSE [s EXCEPT !.cells[x].loading = 0],
                err |-> "none"]

clear(st, key, id) ==
  LET f == findLookup(key)
  IN  IF f.err # "none" THEN [st |-> st, err |-> f.err]
      ELSE IF ~IsLookup(f.lookup) THEN [st |-> st, err |-> "TypeError"]
      ELSE [st |-> Lookup_clear(st, f.lookup, id), err |-> "none"]

clearAll(st, key) ==
  LET f == findLookup(key)
  IN  IF f.err # "none" THEN [st |-> st, err |-> f.err]
      ELSE IF ~IsLookup(f.lookup) THEN [st |-> st, err |-> "TypeError"]
      ELSE [st |-> Lookup_clearAll(st, f.lookup), err |-> "none"]

\* variant: get that calls the factory on every call
get_nomemo(st, key, id) ==
  LET f == findLookup(key)
  IN  IF f.err # "none" THEN [st |-> st, err |-> f.err, ret |-> NoCell]
      ELSE IF ~IsLookup(f.lookup) THEN [st |-> st, err |-> "TypeError", ret |-> NoCell]
      ELSE LET r == factory(st, f.lookup, id)
           IN  [st |-> [r.st EXCEPT !.values[f.lookup][id] = r.ret],
                err |-> "none", ret |-> r.ret]

\* variant: get that starts a new load of a compartment whose load failed
get_retry(st, key, id) ==
  LET f == findLookup(key)
  IN  IF f.err # "none" THEN [st |-> st, err |-> f.err, ret |-> NoCell]
      ELSE IF ~IsLookup(f.lookup) THEN [st |-> st, err |-> "TypeError", ret |-> NoCell]
      ELSE LET r == Lookup_find(st, f.lookup, id)
           IN  [st |-> IF r.st.cells[r.ret].error /\ r.st.cells[r.ret].loading = 0
                       THEN DataCompartment_load(r.st, r.ret) ELSE r.st,
                err |-> "none", ret |-> r.ret]

get(st, key, id) ==
  LET f == findLookup(key)
  IN  IF f.err # "none" THEN [st |-> st, err |-> f.err, ret |-> NoCell]
      ELSE IF ~IsLookup(f.lookup) THEN [st |-> st, err |-> "TypeError", ret |-> NoCell]
      ELSE LET r == Lookup_find(st, f.lookup, id)
           IN  [st |-> r.st, err |-> "none", ret |-> r.ret]

\* variant: reset that clears the first lookup only
reset_one(st) == [st EXCEPT !.values["videos"] = [id \in Ids |-> NoCell]]

reset(st) ==
  LET cleared == {lookups[k] : k \in DOMAIN lookups}
  IN  [st EXCEPT !.values = [key \in DOMAIN st.values |->
                               IF key \in cleared THEN [id \in Ids |-> NoCell]
                               ELSE st.values[key]]]

\* variant: modify that reloads the compartment before it reads it
modify_reloads(st, p, key, id, m) ==
  LET g == get(st, key, id)
  IN  IF g.err # "none"
      THEN [st |-> [st EXCEPT !.procs[p] = modify_rejected([IdleProc EXCEPT !.m = m], g.err)],
            threw |-> "none", ret |-> NoCell]
      ELSE LET x == g.ret
               v == g.st.cells[x].value
               st1 == IF g.st.cells[x].loading = 0 THEN DataCompartment_reload(g.st, x)
                      ELSE g.st
               proc == [IdleProc EXCEPT !.pc = "read", !.cell = x, !.m = m]
           IN  [st |-> [st1 EXCEPT !.procs[p] =
                          IF v # undefined THEN modify_currentValue(proc, v) ELSE proc],
                threw |-> "none", ret |-> x]

\* variant: modify that takes whatever the compartment holds, without waiting
modify_nowait(st, p, key, id, m) ==
  LET g == get(st, key, id)
  IN  IF g.err # "none"
      THEN [st |-> [st EXCEPT !.procs[p] = modify_rejected([IdleProc EXCEPT !.m = m], g.err)],
            threw |-> "none", ret |-> NoCell]
      ELSE LET x == g.ret
               v == g.st.cells[x].value
               st1 == DataCompartment_read(g.st, x)
               proc == [IdleProc EXCEPT !.pc = "read", !.cell = x, !.m = m]
           IN  [st |-> [st1 EXCEPT !.procs[p] = modify_currentValue(proc, v)],
                threw |-> "none", ret |-> x]

\* modify up to its first await; p names the promise it returns. An async
\* function never throws to its caller: what get throws rejects the promise
modify(st, p, key, id, m) ==
  LET g == get(st, key, id)
  IN  IF g.err # "none"
      THEN [st |-> [st EXCEPT !.procs[p] = modify_rejected([IdleProc EXCEPT !.m = m], g.err)],
            threw |-> "none", ret |-> NoCell]
      ELSE LET x == g.ret
               v == g.st.cells[x].value
               st1 == DataCompartment_read(g.st, x)
               proc == [IdleProc EXCEPT !.pc = "read", !.cell = x, !.m = m]
           IN  [st |-> [st1 EXCEPT !.procs[p] =
                          IF v # undefined THEN modify_currentValue(proc, v) ELSE proc],
                threw |-> "none", ret |-> x]

\* variant: modify that applies the modifier to the value the compartment
\* holds when the modifier settles (serialized with the other pushes)
modify_newValue_serial(st, p, ok) ==
  LET proc == st.procs[p]
  IN  IF ok
      THEN DataCompartment_next(
             [st EXCEPT !.procs[p].pc = "done", !.procs[p].pushed = TRUE],
             proc.cell, Apply(proc.m, st.cells[proc.cell].value))
      ELSE [st EXCEPT !.procs[p] = modify_rejected(proc, "ModifierFailure")]

\* variant: modify that pushes currentValue instead of newValue
modify_newValue_current(st, p, ok) ==
  LET proc == st.procs[p]
  IN  IF ok
      THEN DataCompartment_next(
             [st EXCEPT !.procs[p].pc = "done", !.procs[p].pushed = TRUE],
             proc.cell, proc.cur)
      ELSE [st EXCEPT !.procs[p] = modify_rejected(proc, "ModifierFailure")]

\* variant: modify that pushes in a finally block, whatever the modifier did
modify_newValue_finally(st, p, ok) ==
  LET proc == st.procs[p]
  IN  IF ok
      THEN DataCompartment_next(
             [st EXCEPT !.procs[p].pc = "done", !.procs[p].pushed = TRUE],
             proc.cell, Apply(proc.m, proc.cur))
      ELSE DataCompartment_next(
             [st EXCEPT !.procs[p] = modify_rejected([proc EXCEPT !.pushed = TRUE],
                                                    "ModifierFailure")],
             proc.cell, proc.cur)

\* variant: modify that stores newValue in the compartment without next()
modify_newValue_silent(st, p, ok) ==
  LET proc == st.procs[p]
  IN  IF ok
      THEN [st EXCEPT !.procs[p].pc = "done", !.procs[p].pushed = TRUE,
                      !.cells[proc.cell].value = Apply(proc.m, proc.cur)]
      ELSE [st EXCEPT !.procs[p] = modify_rejected(proc, "ModifierFailure")]

\* variant: modify that looks the compartment up again when it pushes
modify_newValue_reget(st, p, ok) ==
  LET proc == st.procs[p]
      c == st.cells[proc.cell]
      g == get(st, c.token, c.id)
  IN  IF ok
      THEN DataCompartment_next(
             [g.st EXCEPT !.procs[p].pc = "done", !.procs[p].pushed = TRUE],
             g.ret, Apply(proc.m, proc.cur))
      ELSE [st EXCEPT !.procs[p] = modify_rejected(proc, "ModifierFailure")]

\* modify after the modifier's promise settled
modify_newValue(st, p, ok) ==
  LET proc == st.procs[p]
  IN  IF ok
      THEN DataCompartment_next(
             [st EXCEPT !.procs[p].pc = "done", !.procs[p].pushed = TRUE],
             proc.cell, Apply(proc.m, proc.cur))
      ELSE [st EXCEPT !.procs[p] = modify_rejected(proc, "ModifierFailure")]

\* ----------------------------------------------------------------- actions
Procs == 1 .. MaxModify
FreeProcs == {p \in Procs : procs[p].pc \in {"idle", "done", "rejected"}}
NoId == 0

Commit(st) ==
  /\ values' = st.values
  /\ cells' = st.cells
  /\ resolverCalls' = st.resolverCalls
  /\ procs' = st.procs
  /\ observers' = st.observers

Called(op, key, id, outcome, err, ret, created) ==
  /\ lastCall' = [op |-> op, key |-> key, id |-> id, outcome |-> outcome,
                  err |-> err, ret |-> ret, created |-> created]
  /\ ncalls' = ncalls + 1

Outcome(err) == IF err = "none" THEN "returned" ELSE "threw"

\* the compartment (key, id) is mapped to, for any token
Mapped(key, id) == IF key \in DOMAIN values THEN values[key][id] ELSE NoCell

CallGet(key, id) ==
  /\ ncalls < MaxCalls
  /\ LET r == get(State, key, id)
     IN  /\ Commit(r.st)
         /\ Called("get", key, id, Outcome(r.err), r.err, r.ret,
                   Len(r.st.cells) > Len(cells))

CallClear(key, id) ==
  /\ ncalls < MaxCalls
  /\ LET r == clear(State, key, id)
     IN  /\ Commit(r.st)
         /\ Called("clear", key, id, Outcome(r.err), r.err, Mapped(key, id), FALSE)

CallClearAll(key) ==
  /\ ncalls < MaxCalls
  /\ LET r == clearAll(State, key)
     IN  /\ Commit(r.st)
         /\ Called("clearAll", key, NoId, Outcome(r.err), r.err, NoCell, FALSE)

CallReset ==
  /\ ncalls < MaxCalls
  /\ Commit(reset(State))
  /\ Called("reset", "none", NoId, "returned", "none", NoCell, FALSE)

CallModify(key, id, m) ==
  /\ ncalls < MaxCalls
  /\ FreeProcs # {}
  /\ LET p == CHOOSE q \in FreeProcs : \A o \in FreeProcs : q <= o
         r == modify(State, p, key, id, m)
     IN  /\ Commit(r.st)
         /\ Called("modify", key, id,
                   IF r.threw = "none" THEN "promise" ELSE "threw", r.threw, r.ret,
                   Len(r.st.cells) > Len(cells))

\* a client that holds compartment x reloads it (by hand or on retention expiry)
CallReload(x) ==
  /\ ncalls < MaxCalls
  /\ x \in DOMAIN cells
  /\ cells[x].loading = 0
  /\ Commit(DataCompartment_reload(State, x))
  /\ Called("reload", cells[x].token, cells[x].id, "returned", "none", x, FALSE)

\* a client that holds compartment x subscribes to its value$
CallSubscribe(x) ==
  /\ ncalls < MaxCalls
  /\ x \in DOMAIN cells
  /\ Len(observers) < MaxObservers
  /\ Commit(DataCompartment_subscribe(State, x))
  /\ Called("subscribe", cells[x].token, cells[x].id, "returned", "none", x, FALSE)

\* the resolver's promise of a load in flight settles
ResolverSettles(x, ok) ==
  /\ x \in DOMAIN cells
  /\ cells[x].loading > 0
  /\ LET outcome == [ok |-> ok,
                     value |-> IF ok THEN Resolve(cells[x].token, cells[x].id) ELSE undefined]
         s == source_settled(outcome)
     IN  Commit(IF s.ok THEN DataCompartment_loaded(State, x, s.value)
                        ELSE DataCompartment_failed(State, x))
  /\ UNCHANGED <<lastCall, ncalls>>

\* the modifier's promise of a suspended modify settles
ModifierSettles(p, ok) ==
  /\ procs[p].pc = "modifier"
  /\ Commit(modify_newValue(State, p, ok))
  /\ UNCHANGED <<lastCall, ncalls>>

Init ==
  /\ values = [key \in DOMAIN lookups |-> [id \in Ids |-> NoCell]]
  /\ cells = <<>>
  /\ resolverCalls = [key \in DOMAIN registry |-> [id \in Ids |-> 0]]
  /\ procs = [p \in Procs |-> IdleProc]
  /\ observers = <<>>
  /\ lastCall = [op |-> "none", key |-> "none", id |-> NoId, outcome |-> "returned",
                 err |-> "none", ret |-> NoCell, created |-> FALSE]
  /\ ncalls = 0

\* a client makes a call
Calls ==
  \/ \E r \in Modifications : CallModify(r[1], r[2], r[3])
  \/ \E r \in Requests : CallGet(r[1], r[2])
  \/ \E r \in Requests : CallClear(r[1], r[2])
  \/ \E key \in Tokens : CallClearAll(key)
  \/ CallReset
  \/ \E x \in DOMAIN cells : CallReload(x)
  \/ \E x \in DOMAIN cells : CallSubscribe(x)

\* a promise in flight settles: the resolver's of a load, or the modifier's of
\* a suspended modify
Settles ==
  \/ \E x \in DOMAIN cells, ok \in BOOLEAN : ResolverSettles(x, ok)
  \/ \E p \in Procs, ok \in BOOLEAN : ModifierSettles(p, ok)

Next == Calls \/ Settles

Spec == Init /\ [][Next]_vars

\* the behaviours checked for liveness: the same calls, fewer of them
LiveNext == (ncalls < MaxLiveCalls /\ Calls) \/ Settles

\* promises do not stay pending for ever: while one is in flight, one settles
LiveSpec == Init /\ [][LiveNext]_vars /\ WF_vars(Settles)

\* ------------------------------------------------------------- properties
\* a step in which a client makes a call
IsCall == ncalls' = ncalls + 1

Registered(key) == key \in DOMAIN registry

\* the first load of compartment x is still in flight
FirstLoadInFlight(x) ==
  /\ cells[x].loading = 1
  /\ cells[x].loads = 1
  /\ cells[x].emitted = <<>>
  /\ ~cells[x].error

\* a step in which the compartment x is created, mapped to (key, id) and its
\* one load started with one call of the resolver
CreatesFresh(key, id, x) ==
  /\ x = Len(cells) + 1
  /\ Len(cells') = Len(cells) + 1
  /\ values'[key][id] = x
  /\ cells'[x].loading = 1
  /\ cells'[x].loads = 1
  /\ resolverCalls'[key][id] = resolverCalls[key][id] + 1

\* C1: single-flight first access. A get for a (category, id) without an entry
\* creates exactly one compartment and calls the resolver once; every further
\* get made before that first load settles returns that same compartment,
\* creates none and does not call the resolver.
C1_SingleFlight ==
  [][(IsCall /\ lastCall'.op = "get" /\ Registered(lastCall'.key)) =>
       LET key == lastCall'.key
           id == lastCall'.id
           x == values[key][id]
       IN  /\ x = NoCell => CreatesFresh(key, id, lastCall'.ret)
           /\ (x # NoCell /\ FirstLoadInFlight(x)) =>
                /\ lastCall'.ret = x
                /\ cells' = cells
                /\ values' = values
                /\ resolverCalls' = resolverCalls]_vars

\* a second get answered while the first load is still in flight
C1_Witness ==
  /\ lastCall.op = "get"
  /\ Registered(lastCall.key)
  /\ ~lastCall.created
  /\ lastCall.ret # NoCell
  /\ values[lastCall.key][lastCall.id] = lastCall.ret
  /\ FirstLoadInFlight(lastCall.ret)
  /\ resolverCalls[lastCall.key][lastCall.id] = 1

\* a step in which the modify call p pushes
Pushes(p) == procs[p].pc = "modifier" /\ procs'[p].pc = "done"

\* C2: modify calls are not serialized. When a modify pushes onto a compartment
\* whose value is no longer the one it read, the compartment ends up holding
\* the modifier's result for the value that was read: the pushes made in
\* between are overwritten, the last push wins.
C2_LastPushWins ==
  [][\A p \in Procs :
       (Pushes(p) /\ cells[procs[p].cell].value # procs[p].cur) =>
          /\ cells'[procs[p].cell].value = Apply(procs[p].m, procs[p].cur)
          /\ cells'[procs[p].cell].value # Apply(procs[p].m, cells[procs[p].cell].value)]_vars

\* two modify calls read the same value, both pushed, the first result is lost
C2_Witness ==
  \E p, q \in Procs :
    /\ p # q
    /\ procs[p].pc = "done" /\ procs[q].pc = "done"
    /\ procs[p].cell = procs[q].cell
    /\ procs[p].cur = procs[q].cur
    /\ procs[p].m # procs[q].m
    /\ LET x == procs[p].cell
           n == Len(cells[x].emitted)
       IN  /\ n >= 3
           /\ cells[x].emitted[n - 1] = Apply(procs[p].m, procs[p].cur)
           /\ cells[x].emitted[n] = Apply(procs[q].m, procs[q].cur)
           /\ cells[x].value = Apply(procs[q].m, procs[q].cur)

\* C3: modify on a compartment holding V reads V, and when the modifier
\* resolves while the compartment still holds V, the compartment holds m(V)
\* and m(V) is its next emission.
C3_ModifyPushes ==
  [][/\ (IsCall /\ lastCall'.op = "modify" /\ Registered(lastCall'.key)) =>
          LET x == values[lastCall'.key][lastCall'.id]
          IN  (x # NoCell /\ cells[x].value # undefined) =>
                 /\ lastCall'.ret = x
                 /\ \E p \in Procs :
                      /\ procs[p].pc # "modifier"
                      /\ procs'[p].pc = "modifier"
                      /\ procs'[p].cell = x
                      /\ procs'[p].cur = cells[x].value
     /\ \A p \in Procs :
          (Pushes(p) /\ cells[procs[p].cell].value = procs[p].cur) =>
             LET x == procs[p].cell
                 v == Apply(procs[p].m, cells[x].value)
             IN  /\ cells'[x].value = v
                 /\ cells'[x].emitted = Append(cells[x].emitted, v)]_vars

\* a modify has read V from a loaded compartment and pushed m(V)
C3_Witness ==
  \E p \in Procs :
    /\ procs[p].pc = "done"
    /\ procs[p].pushed
    /\ LET x == procs[p].cell
           n == Len(cells[x].emitted)
       IN  /\ n >= 2
           /\ cells[x].emitted[n - 1] = procs[p].cur
           /\ cells[x].emitted[n] = Apply(procs[p].m, procs[p].cur)
           /\ cells[x].value = Apply(procs[p].m, procs[p].cur)

\* C4: when the modifier rejects, nothing is pushed: in that step no
\* compartment changes its value or its emissions, no mapping changes, and
\* the promise modify returned rejects with the modifier's failure; a modify
\* that ended rejected has never pushed.
C4_ModifierFailure ==
  [][\A p \in Procs :
       (procs[p].pc = "modifier" /\ procs'[p].pc = "rejected") =>
          /\ cells' = cells
          /\ values' = values
          /\ procs'[p].err = "ModifierFailure"
          /\ ~procs'[p].pushed]_vars

\* the modifier of a modify on a mapped, loaded compartment rejected
C4_Witness ==
  \E p \in Procs :
    /\ procs[p].pc = "rejected"
    /\ procs[p].err = "ModifierFailure"
    /\ LET x == procs[p].cell
       IN  /\ values[cells[x].token][cells[x].id] = x
           /\ cells[x].value = procs[p].cur
           /\ cells[x].emitted = <<procs[p].cur>>

\* the error a call on a token that was never registered ends with
ErrorFor(key) == IF key \in ObjectPrototypeKeys THEN "TypeError" ELSE "UnknownCategory"

RepositoryOps == {"get", "clear", "clearAll", "modify"}

C6_NoStateCreated ==
  [][(IsCall /\ lastCall'.op \in RepositoryOps /\ ~Registered(lastCall'.key)) =>
       /\ cells' = cells
       /\ resolverCalls' = resolverCalls
       /\ values' = values
       /\ \A p \in Procs : procs'[p].pc \in {"read", "modifier"} => procs'[p] = procs[p]]_vars

\* a call on an unregistered token was made while a compartment was mapped
C6_Witness ==
  /\ lastCall.op \in RepositoryOps
  /\ ~Registered(lastCall.key)
  /\ Len(cells) > 0
  /\ \E key \in DOMAIN values, id \in Ids : values[key][id] # NoCell

\* C7: a get that follows the clear of a mapped (category, id) returns a
\* compartment that is not the one that was cleared (one that did not exist
\* before) and calls the resolver once more, whether the cleared compartment
\* was loading or loaded.
C7_MissAfterClear ==
  [][(/\ IsCall
      /\ lastCall'.op = "get"
      /\ lastCall.op = "clear"
      /\ Registered(lastCall.key)
      /\ lastCall'.key = lastCall.key
      /\ lastCall'.id = lastCall.id
      /\ lastCall.ret # NoCell) =>
        /\ lastCall'.ret # lastCall.ret
        /\ lastCall'.ret \notin DOMAIN cells
        /\ CreatesFresh(lastCall.key, lastCall.id, lastCall'.ret)]_vars

\* a get created a compartment for a key whose previous compartment, cleared
\* while loading, is still loading
C7_Witness ==
  /\ lastCall.op = "get"
  /\ lastCall.created
  /\ \E y \in DOMAIN cells :
       /\ y # lastCall.ret
       /\ cells[y].token = lastCall.key
       /\ cells[y].id = lastCall.id
       /\ cells[y].loading = 1
  /\ resolverCalls[lastCall.key][lastCall.id] = 2

\* the lookups get, clear and clearAll resolve
ResolvedLookups == {findLookup(key).lookup : key \in {k \in Tokens : IsLookup(findLookup(k).lookup)}}

\* C8: reset empties the mapping of every lookup that get, clear and clearAll
\* resolve, and the get that follows a reset, for a (category, id) that was
\* loaded before, creates a compartment and calls the resolver again.
C8_ResetClearsAll ==
  [][/\ (IsCall /\ lastCall'.op = "reset") =>
          /\ ResolvedLookups = DOMAIN values
          /\ \A key \in ResolvedLookups, id \in Ids : values'[key][id] = NoCell
     /\ (/\ IsCall
         /\ lastCall.op = "reset"
         /\ lastCall'.op = "get"
         /\ Registered(lastCall'.key)
         /\ resolverCalls[lastCall'.key][lastCall'.id] > 0) =>
          CreatesFresh(lastCall'.key, lastCall'.id, lastCall'.ret)]_vars

\* reset has run with loaded compartments of two categories
C8_Witness ==
  /\ lastCall.op = "reset"
  /\ \E x, y \in DOMAIN cells :
       /\ cells[x].token # cells[y].token
       /\ cells[x].value # undefined
       /\ cells[y].value # undefined
  /\ \A key \in DOMAIN values, id \in Ids : values[key][id] = NoCell

RECURSIVE SumLoading(_, _)
SumLoading(S, i) ==
  IF i = 0 THEN 0
  ELSE (IF i \in S THEN cells[i].loading ELSE 0) + SumLoading(S, i - 1)

\* the compartments built for (key, id)
CellsOf(key, id) == {x \in DOMAIN cells : cells[x].token = key /\ cells[x].id = id}

\* resolver invocations outstanding for (key, id)
Outstanding(key, id) == SumLoading(CellsOf(key, id), Len(cells))

\* C9 as stated: every compartment has at most one load in flight and no two
\* resolver invocations are outstanding at once for the same (category, id).
C9_Original ==
  /\ \A x \in DOMAIN cells : cells[x].loading <= 1
  /\ \A key \in DOMAIN values, id \in Ids : Outstanding(key, id) <= 1

\* C9 (amended): every compartment has at most one load in flight, so the
\* resolver invocations outstanding for a (category, id) are at most one for
\* the compartment it is mapped to, plus one for each detached compartment
\* whose load was in flight when it was cleared.
C9_SingleLoadPerCell ==
  /\ \A x \in DOMAIN cells : cells[x].loading <= 1
  /\ \A key \in DOMAIN values, id \in Ids :
       LET detached == {x \in CellsOf(key, id) : values[key][id] # x /\ cells[x].loading > 0}
       IN  Outstanding(key, id) <= Cardinality(detached) + 1

\* two loads are outstanding for one key: the mapped compartment's and a detached one's
C9_Witness ==
  \E x, y \in DOMAIN cells :
    /\ x # y
    /\ cells[x].token = cells[y].token
    /\ cells[x].id = cells[y].id
    /\ cells[x].loading = 1
    /\ cells[y].loading = 1
    /\ values[cells[y].token][cells[y].id] = y

\* a step in which a load of x settles
LoadSettles(x) == x \in DOMAIN cells /\ cells'[x].loading < cells[x].loading

\* a step in which a load of x settles with the resolver's value
LoadSucceeds(x) ==
  /\ LoadSettles(x)
  /\ cells'[x].value = Resolve(cells[x].token, cells[x].id)
  /\ cells'[x].emitted = Append(cells[x].emitted, cells'[x].value)

\* C10: a load that fails changes neither the compartment's value and
\* emissions nor any mapping, and the compartment can be loaded again: a
\* reload, or a modify when it has no value, starts a new load.
C10_FailedLoadKeepsValue ==
  [][/\ \A x \in DOMAIN cells :
          (LoadSettles(x) /\ ~LoadSucceeds(x)) =>
             /\ cells'[x].value = cells[x].value
             /\ cells'[x].emitted = cells[x].emitted
             /\ cells'[x].error
             /\ values' = values
     /\ (/\ IsCall
         /\ lastCall'.op \in {"reload", "modify"}
         /\ lastCall'.ret \in DOMAIN cells
         /\ cells[lastCall'.ret].error
         /\ cells[lastCall'.ret].loading = 0
         /\ (lastCall'.op = "reload" \/ cells[lastCall'.ret].value = undefined)) =>
          /\ cells'[lastCall'.ret].loading = 1
          /\ ~cells'[lastCall'.ret].error
          /\ cells'[lastCall'.ret].value = cells[lastCall'.ret].value]_vars

\* the reload of a loaded compartment failed: its value is kept and it is still mapped
C10_Witness ==
  \E x \in DOMAIN cells :
    /\ cells[x].error
    /\ cells[x].loads = 2
    /\ cells[x].value = Resolve(cells[x].token, cells[x].id)
    /\ cells[x].emitted = <<cells[x].value>>
    /\ values[cells[x].token][cells[x].id] = x

\* C11: when the resolver rejects while a modify is waiting for the first
\* value of its compartment, the modify ends in that step: the promise it
\* returned rejects with the load's failure, the modifier has not been called
\* and nothing is pushed.
C11_LoadFailureSurfaced ==
  [][\A p \in Procs :
       (/\ procs[p].pc = "read"
        /\ LoadSettles(procs[p].cell)
        /\ ~LoadSucceeds(procs[p].cell)) =>
          /\ procs'[p].pc = "rejected"
          /\ procs'[p].err = "LoadFailure"
          /\ procs'[p].cur = undefined
          /\ ~procs'[p].pushed
          /\ cells'[procs[p].cell].value = undefined
          /\ cells'[procs[p].cell].emitted = <<>>]_vars

\* a modify that was waiting for the initial load ended with the load's failure
C11_Witness ==
  \E p \in Procs :
    /\ procs[p].pc = "rejected"
    /\ procs[p].err = "LoadFailure"
    /\ cells[procs[p].cell].error
    /\ cells[procs[p].cell].loads = 1
    /\ cells[procs[p].cell].emitted = <<>>

\* the values x emits in a step, in order
NewlyEmitted(x) == SubSeq(cells'[x].emitted, Len(cells[x].emitted) + 1, Len(cells'[x].emitted))

\* C12: replay-latest ordering. A subscriber that attaches to a compartment
\* that has emitted receives the latest value at once; from then on every step
\* delivers to it exactly the values its compartment emits in that step, once
\* each and in order, and the compartment's value never changes without an
\* emission of the new value.
C12_ReplayLatest ==
  [][/\ (IsCall /\ lastCall'.op = "subscribe") =>
          LET x == lastCall'.ret
              o == Len(observers) + 1
          IN  /\ Len(observers') = o
              /\ observers'[o].cell = x
              /\ observers'[o].received =
                   IF cells[x].emitted # <<>>
                   THEN <<cells[x].emitted[Len(cells[x].emitted)]>>
                   ELSE <<>>
     /\ \A o \in DOMAIN observers :
          LET x == observers[o].cell
          IN  /\ observers'[o].cell = x
              /\ Len(cells'[x].emitted) >= Len(cells[x].emitted)
              /\ observers'[o].received = observers[o].received \o NewlyEmitted(x)
              /\ cells'[x].value # cells[x].value =>
                   /\ NewlyEmitted(x) # <<>>
                   /\ cells'[x].value = cells'[x].emitted[Len(cells'[x].emitted)]]_vars

\* a subscriber attached after two pushes, was given the latest only, and then
\* received the next push
C12_Witness ==
  \E o \in DOMAIN observers :
    LET e == cells[observers[o].cell].emitted
    IN  /\ Len(e) = 3
        /\ e[1] # e[2]
        /\ observers[o].received = <<e[2], e[3]>>

\* C13: a modify on a compartment that holds a value calls no resolver: neither
\* the call (which binds to the compartment get returns, builds none and
\* starts no load) nor the push (which lands on that compartment only) changes
\* any resolver count.
C13_ModifyNoResolverCall ==
  [][/\ (IsCall /\ lastCall'.op = "modify" /\ Registered(lastCall'.key)) =>
          LET x == values[lastCall'.key][lastCall'.id]
          IN  (x # NoCell /\ cells[x].value # undefined) =>
                 /\ resolverCalls' = resolverCalls
                 /\ cells' = cells
                 /\ values' = values
                 /\ lastCall'.ret = get(State, lastCall'.key, lastCall'.id).ret
                 /\ \E p \in Procs : procs'[p] # procs[p] /\ procs'[p].cell = x
     /\ \A p \in Procs :
          Pushes(p) =>
             /\ resolverCalls' = resolverCalls
             /\ Len(cells') = Len(cells)
             /\ cells'[procs[p].cell].loads = cells[procs[p].cell].loads
             /\ cells'[procs[p].cell].loading = cells[procs[p].cell].loading
             /\ procs'[p].cell = procs[p].cell
             /\ \A y \in DOMAIN cells : y # procs[p].cell => cells'[y] = cells[y]]_vars

\* a modify called on a loaded, mapped compartment has pushed, and the
\* resolver was called for its key only once, by the first get
C13_Witness ==
  /\ lastCall.op = "modify"
  /\ ~lastCall.created
  /\ Registered(lastCall.key)
  /\ values[lastCall.key][lastCall.id] = lastCall.ret
  /\ resolverCalls[lastCall.key][lastCall.id] = 1
  /\ cells[lastCall.ret].loads = 1
  /\ \E p \in Procs :
       /\ procs[p].pc = "done"
       /\ procs[p].cell = lastCall.ret
       /\ cells[lastCall.ret].emitted = <<procs[p].cur, Apply(procs[p].m, procs[p].cur)>>

\* the state of the entry (key, id) of the cache
EntryStateOf(vals, cs, key, id) ==
  LET x == vals[key][id]
  IN  IF x = NoCell THEN "absent"
      ELSE IF cs[x].loading > 0 THEN "loading"
      ELSE IF cs[x].error THEN "error"
      ELSE "ready"

\* the step is a call of one of ops that names the entry (key, id)
CallOn(ops, key, id) ==
  /\ IsCall
  /\ lastCall'.op \in ops
  /\ lastCall'.op # "reset" => lastCall'.key = key
  /\ lastCall'.op \notin {"reset", "clearAll"} => lastCall'.id = id

\* the step changes the state of the entry (key, id) the way the state machine
\* allows; evictable are the states clear, clearAll and reset may leave
MachineStep(key, id, evictable) ==
  LET s == EntryStateOf(values, cells, key, id)
      t == EntryStateOf(values', cells', key, id)
      x == values[key][id]
  IN  /\ (s # "absent" /\ t # "absent") => values'[key][id] = x
      /\ s # t =>
           \/ s = "absent" /\ t = "loading" /\ CallOn({"get", "modify"}, key, id)
           \/ s = "loading" /\ t = "ready" /\ ~IsCall /\ LoadSucceeds(x)
           \/ /\ s = "loading" /\ t = "error" /\ ~IsCall
              /\ LoadSettles(x)
              /\ cells'[x].value = cells[x].value
           \/ s \in evictable /\ t = "absent" /\ CallOn({"clear", "clearAll", "reset"}, key, id)
           \/ s = "ready" /\ t = "loading" /\ CallOn({"reload"}, key, id) /\ lastCall'.ret = x
           \/ s = "error" /\ t = "loading" /\ CallOn({"reload", "modify"}, key, id)
                         /\ lastCall'.ret = x

\* C14 as stated: an entry becomes absent from ready only.
C14_Original ==
  [][\A key \in DOMAIN values, id \in Ids : MachineStep(key, id, {"ready"})]_vars

\* C14 (amended): every change of state of an entry is one of: absent ->
\* loading by get or by the get inside modify; loading -> ready by load
\* success; loading -> error by load failure, the value kept; ready -> loading
\* by reload; error -> loading by reload or by the read of modify; and
\* loading, ready or error -> absent by clear, clearAll or reset.
C14_StateMachine ==
  [][\A key \in DOMAIN values, id \in Ids :
       MachineStep(key, id, {"loading", "ready", "error"})]_vars

\* an entry was cleared while its compartment was loading
C14_Witness ==
  /\ lastCall.op = "clear"
  /\ Registered(lastCall.key)
  /\ lastCall.ret # NoCell
  /\ cells[lastCall.ret].loading = 1
  /\ values[lastCall.key][lastCall.id] = NoCell

\* C16: a modify on a (category, id) without an entry creates the compartment
\* and starts its one load, and waits; it goes on to the modifier only in the
\* step in which that compartment's load emits its first value V, with V as
\* currentValue; a modifier is never given the absent value, and what is
\* pushed is the modifier's result for V.
C16_ModifyAwaitsLoad ==
  [][/\ (/\ IsCall
         /\ lastCall'.op = "modify"
         /\ Registered(lastCall'.key)
         /\ values[lastCall'.key][lastCall'.id] = NoCell) =>
          /\ CreatesFresh(lastCall'.key, lastCall'.id, lastCall'.ret)
          /\ \E p \in Procs :
               /\ procs'[p] # procs[p]
               /\ procs'[p].pc = "read"
               /\ procs'[p].cell = lastCall'.ret
               /\ procs'[p].cur = undefined
               /\ ~procs'[p].pushed
     /\ \A p \in Procs :
          /\ procs[p].pc = "read" => procs'[p].pc \in {"read", "modifier", "rejected"}
          /\ (procs[p].pc = "read" /\ procs'[p].pc = "modifier") =>
               /\ LoadSucceeds(procs[p].cell)
               /\ cells[procs[p].cell].emitted = <<>>
               /\ procs'[p].cur = cells'[procs[p].cell].value
          /\ procs'[p].pc = "modifier" => procs'[p].cur # undefined
          /\ Pushes(p) =>
               /\ procs[p].cur # undefined
               /\ cells'[procs[p].cell].value = Apply(procs[p].m, procs[p].cur)]_vars

\* the modify that created the compartment has waited for its load and pushed
C16_Witness ==
  /\ lastCall.op = "modify"
  /\ lastCall.created
  /\ resolverCalls[lastCall.key][lastCall.id] = 1
  /\ \E p \in Procs :
       /\ procs[p].pc = "done"
       /\ procs[p].cell = lastCall.ret
       /\ procs[p].cur = Resolve(lastCall.key, lastCall.id)
       /\ cells[lastCall.ret].emitted = <<procs[p].cur, Apply(procs[p].m, procs[p].cur)>>

\* compartment x is no longer the one its (key, id) is mapped to
Detached(x) == values[cells[x].token][cells[x].id] # x

\* the values x has emitted
Emitted(x) == {cells[x].emitted[i] : i \in DOMAIN cells[x].emitted}

C17_ModifyBindsToCell ==
  [][\A p \in Procs :
       /\ (/\ procs[p].pc \in {"read", "modifier"}
           /\ IsCall
           /\ lastCall'.op \in {"clear", "clearAll", "reset"}) =>
            /\ procs'[p] = procs[p]
            /\ cells'[procs[p].cell] = cells[procs[p].cell]
       /\ (Pushes(p) /\ Detached(procs[p].cell)) =>
            /\ values' = values
            /\ Len(cells') = Len(cells)
            /\ cells'[procs[p].cell].value = Apply(procs[p].m, procs[p].cur)
            /\ \A y \in DOMAIN cells : y # procs[p].cell => cells'[y] = cells[y]]_vars

\* a modify pushed onto a compartment that was cleared while it was suspended,
\* and the compartment a later get created holds the loaded value only
C17_Witness ==
  \E p \in Procs :
    LET x == procs[p].cell
    IN  /\ procs[p].pc = "done"
        /\ Detached(x)
        /\ cells[x].value = Apply(procs[p].m, procs[p].cur)
        /\ LET y == values[cells[x].token][cells[x].id]
           IN  /\ y # NoCell
               /\ cells[y].emitted = <<Resolve(cells[x].token, cells[x].id)>>
               /\ cells[y].value # cells[x].value

\* C18: eviction is scoped. clear(category, id) unmaps (category, id) and
\* clearAll(category) unmaps the ids of category; every other mapping, every
\* compartment (its identity, value and emissions) and every resolver count
\* stay as they were.
C18_ScopedEviction ==
  [][/\ (IsCall /\ lastCall'.op = "clear" /\ Registered(lastCall'.key)) =>
          /\ values'[lastCall'.key][lastCall'.id] = NoCell
          /\ \A key \in DOMAIN values, id \in Ids :
               (key # lastCall'.key \/ id # lastCall'.id) =>
                  values'[key][id] = values[key][id]
          /\ cells' = cells
          /\ resolverCalls' = resolverCalls
     /\ (IsCall /\ lastCall'.op = "clearAll" /\ Registered(lastCall'.key)) =>
          /\ \A id \in Ids : values'[lastCall'.key][id] = NoCell
          /\ \A key \in DOMAIN values : key # lastCall'.key => values'[key] = values[key]
          /\ cells' = cells
          /\ resolverCalls' = resolverCalls]_vars

\* one id of a category was cleared and another id of it is still mapped
C18_Witness ==
  /\ lastCall.op = "clear"
  /\ Registered(lastCall.key)
  /\ lastCall.ret # NoCell
  /\ values[lastCall.key][lastCall.id] = NoCell
  /\ \E id \in Ids : id # lastCall.id /\ values[lastCall.key][id] # NoCell

\* C19: when every load and every modifier settles, every modify call that is
\* suspended (waiting for its compartment's first value or for its modifier)
\* ends: its promise resolves after the push or rejects, whatever get, clear,
\* clearAll, reset and modify calls are made meanwhile.
C19_ModifyCompletes ==
  \A p \in Procs :
    (procs[p].pc \in {"read", "modifier"}) ~> (procs[p].pc \in {"done", "rejected"})

\* a modify ended although its entry was cleared while it was suspended and
\* never asked for again
C19_Witness ==
  \E p \in Procs :
    /\ procs[p].pc = "done"
    /\ procs[p].pushed
    /\ cells[procs[p].cell].emitted # <<>>
    /\ values[cells[procs[p].cell].token][cells[procs[p].cell].id] = NoCell
    /\ lastCall.op \in {"clear", "clearAll", "reset"}

====
